---------------------------- MODULE Spec2Model ----------------------------
(***************************************************************************)
(* Model of archive_newsletters.py: one run of the Instapaper newsletter   *)
(* archiver.  The run is the control flow of main(): load the              *)
(* configuration, read the credentials, exchange them for a token, build   *)
(* the signed session, list the bookmarks tagged "newsletter", keep those  *)
(* older than 7 days, archive each of them, print the summary and exit.    *)
(*                                                                         *)
(* The remote service and the configuration file are the environment:      *)
(* every HTTP status, every response body and the clock reading are        *)
(* chosen nondeterministically from small sets.  Every HTTP call is        *)
(* recorded, with its form data and the status it got, in `calls`; what    *)
(* the run prints is recorded in `stdout` and `stderr`.                    *)
(*                                                                         *)
(* Python values: None and "not exited yet" are the empty tuple; a dict    *)
(* is a function whose DOMAIN is its set of keys; an aware UTC datetime    *)
(* is the triple <<days, seconds, microseconds>> (days since the epoch,     *)
(* second of the day, microsecond of the second), compared the way         *)
(* datetime compares: field by field.  An uncaught exception ends the      *)
(* process with status 1, as the interpreter does.                         *)
(***************************************************************************)
EXTENDS Integers, Sequences, FiniteSets, TLC

VARIABLES
    pc,             \* position of main()
    configFile,     \* environment: instapaper_config.json
    config,         \* main: config (None until loaded)
    password,       \* main: password (None until read)
    oauth_session,  \* main: oauth_session (None until constructed)
    response,       \* get_newsletter_bookmarks: response of the list call
    bookmarks,      \* main: bookmarks
    now,            \* datetime.now(timezone.utc) as read at line 123
    cutoff_time,    \* main: cutoff_time (None until computed)
    old_bookmarks,  \* main: old_bookmarks
    i,              \* position of the loop of line 142 in old_bookmarks
    archived_count, \* main: archived_count (0 until line 139 sets it to 0)
    failed_count,   \* main: failed_count (0 until line 140 sets it to 0)
    calls,          \* every HTTP request issued, in order, with its status
    stdout,         \* lines printed to standard output
    stderr,         \* lines printed to the error stream
    exit_code       \* <<>> while running, <<status>> once the process ended

vars == <<pc, configFile, config, password, oauth_session, response, bookmarks,
          now, cutoff_time, old_bookmarks, i, archived_count, failed_count,
          calls, stdout, stderr, exit_code>>

-----------------------------------------------------------------------------
(* Bounds of the model *)

\* longest JSON array the list endpoint answers with (first element included)
MaxLen == 4

\* the day (since the epoch) around whose midnight the bookmark times lie
BaseDay == 10

-----------------------------------------------------------------------------
(* Program constants *)

\* timedelta(days=7)
Days == 7

\* seconds of one day of a datetime / timedelta
SecondsPerDay == 86400

\* limit = 500
Limit == 500

\* the status every call is compared with
HTTP_OK == 200

\* sys.exit(1), and the status of a process ended by an uncaught exception
EXIT_FAILURE == 1

\* the status of a process whose main() returned
EXIT_SUCCESS == 0

None == <<>>

-----------------------------------------------------------------------------
(* Python helpers *)

\* d.get(k, default)
Get(d, k, default) == IF k \in DOMAIN d THEN d[k] ELSE default

\* datetime.fromtimestamp(t, tz=timezone.utc)
FromTimestamp(t) == <<t \div SecondsPerDay, t % SecondsPerDay, 0>>

\* datetime.now(timezone.utc) when the clock reads <<seconds, microseconds>>
UtcNow(reading) == <<reading[1] \div SecondsPerDay, reading[1] % SecondsPerDay, reading[2]>>

\* dt - timedelta(days=n)
MinusDays(dt, n) == <<dt[1] - n, dt[2], dt[3]>>

\* a <= b in place of a < b
DatetimeLessEq(a, b) ==
    \/ a[1] < b[1]
    \/ a[1] = b[1] /\ a[2] < b[2]
    \/ a[1] = b[1] /\ a[2] = b[2] /\ a[3] <= b[3]

\* a < b on two aware datetimes (line 129)
DatetimeLess(a, b) ==
    \/ a[1] < b[1]
    \/ a[1] = b[1] /\ a[2] < b[2]
    \/ a[1] = b[1] /\ a[2] = b[2] /\ a[3] < b[3]

\* the process ends with `status`
Exit(status) == /\ pc' = "done"
                /\ exit_code' = <<status>>

\* an uncaught exception: traceback on the error stream, status 1
Raise(exc) == /\ stderr' = Append(stderr, <<"Traceback", exc>>)
              /\ Exit(EXIT_FAILURE)

-----------------------------------------------------------------------------
(* The environment's inputs *)

RequiredKeys == {"consumer_key", "consumer_secret", "username"}

ConfigKeys == RequiredKeys \cup {"password"}

ConfigValue(k) == CASE k = "consumer_key"    -> "ck"
                    [] k = "consumer_secret" -> "cs"
                    [] k = "username"        -> "user"
                    [] OTHER                 -> "pw"

\* the configuration file: absent, not JSON, or a JSON object holding any
\* subset of the four fields
ConfigFiles == { [exists |-> FALSE, json |-> FALSE, keys |-> {}],
                 [exists |-> TRUE,  json |-> FALSE, keys |-> {}] } \cup
               { [exists |-> TRUE, json |-> TRUE, keys |-> ks] : ks \in SUBSET ConfigKeys }

\* json.load(f) of a well-formed file
JsonLoad(file) == [k \in file.keys |-> ConfigValue(k)]

Statuses == {HTTP_OK, 204, 500}

\* bodies of the token endpoint, already split on '&' and on '='
TokenBodies == { << <<"oauth_token", "tok">>, <<"oauth_token_secret", "sec">> >>,
                 << <<"oauth_token_secret", "sec">>, <<"oauth_token", "tok">> >>,
                 << <<"oauth_token", "tok">> >>,
                 << <<"error">> >> }

T0 == BaseDay * SecondsPerDay

\* bookmark times: the last second of a day, midnight, the first second after
Times == {T0 - 1, T0, T0 + 1}

\* clock readings <<seconds, microseconds>>: with the first the cutoff is
\* T0 exactly, with the second it is one microsecond after T0
Nows == {<<T0 + Days * SecondsPerDay, 0>>, <<T0 + Days * SecondsPerDay, 1>>}

\* bookmark objects of the list endpoint: each carries bookmark_id and time
\* (epoch seconds), as the endpoint documents them; the title is optional
BookmarkObjs == { [bookmark_id |-> 1, time |-> t, title |-> "A"] : t \in Times }
                \cup { [bookmark_id |-> 2, time |-> t] : t \in Times }

UserObj == [type |-> "user", user_id |-> 7]

\* a first element shaped like an old bookmark, with an id no other has
DecoyObj == [bookmark_id |-> 3, time |-> T0 - 1, title |-> "D"]

FirstObjs == {UserObj, DecoyObj}

RECURSIVE SeqsUpTo(_, _)
SeqsUpTo(S, n) == IF n = 0 THEN {<<>>}
                  ELSE LET shorter == SeqsUpTo(S, n - 1)
                       IN  shorter \cup { Append(s, x) : s \in shorter, x \in S }

\* JSON arrays of the list endpoint
ListBodies == {<<>>} \cup
              { <<f>> \o rest : f \in FirstObjs, rest \in SeqsUpTo(BookmarkObjs, MaxLen - 1) }

-----------------------------------------------------------------------------
Init ==
    /\ pc = "load_config"
    /\ configFile \in ConfigFiles
    /\ config = None
    /\ password = None
    /\ oauth_session = None
    /\ response = None
    /\ bookmarks = <<>>
    /\ now = None
    /\ cutoff_time = None
    /\ old_bookmarks = <<>>
    /\ i = 1
    /\ archived_count = 0
    /\ failed_count = 0
    /\ calls = <<>>
    /\ stdout = <<>>
    /\ stderr = <<>>
    /\ exit_code = <<>>

\* load_config(), called at line 93
load_config ==
    /\ pc = "load_config"
    /\ IF ~configFile.exists
       THEN /\ stderr' = stderr \o << <<"Error: Configuration file not found">>,
                                     <<"Please create instapaper_config.json">>,
                                     <<"See instapaper_config.example.json">> >>
            /\ Exit(EXIT_FAILURE)
            /\ UNCHANGED config
       ELSE IF ~configFile.json
       THEN /\ Raise("JSONDecodeError")
            /\ UNCHANGED config
       ELSE /\ config' = JsonLoad(configFile)
            /\ pc' = "read_credentials"
            /\ UNCHANGED <<stderr, exit_code>>
    /\ UNCHANGED <<configFile, password, oauth_session, response, bookmarks, now,
                   cutoff_time, old_bookmarks, i, archived_count, failed_count,
                   calls, stdout>>

\* main, lines 96-99, with username read by .get like the password
read_credentials_lenient ==
    /\ pc = "read_credentials"
    /\ IF ~({"consumer_key", "consumer_secret"} \subseteq DOMAIN config)
       THEN /\ Raise("KeyError")
            /\ UNCHANGED password
       ELSE /\ password' = Get(config, "password", "")
            /\ pc' = "get_access_token"
            /\ UNCHANGED <<stderr, exit_code>>
    /\ UNCHANGED <<configFile, config, oauth_session, response, bookmarks, now,
                   cutoff_time, old_bookmarks, i, archived_count, failed_count,
                   calls, stdout>>

\* main, lines 96-99: config[...] raises KeyError on a missing key, the
\* password alone is read with a default
read_credentials ==
    /\ pc = "read_credentials"
    /\ IF ~(RequiredKeys \subseteq DOMAIN config)
       THEN /\ Raise("KeyError")
            /\ UNCHANGED password
       ELSE /\ password' = Get(config, "password", "")
            /\ pc' = "get_access_token"
            /\ UNCHANGED <<stderr, exit_code>>
    /\ UNCHANGED <<configFile, config, oauth_session, response, bookmarks, now,
                   cutoff_time, old_bookmarks, i, archived_count, failed_count,
                   calls, stdout>>

\* the request of lines 40-47 and the status it got
TokenCall(status) ==
    [endpoint |-> "oauth/access_token",
     data     |-> [x_auth_username |-> Get(config, "username", ""),
                   x_auth_password |-> password,
                   x_auth_mode     |-> "client_auth"],
     status   |-> status]

\* dict(param.split('=') for param in response.text.split('&')) is defined
TokensParse(body) == \A n \in 1..Len(body) : Len(body[n]) = 2

\* tokens[key]
TokensHas(body, key) == \E n \in 1..Len(body) : body[n][1] = key

TokensGet(body, key) ==
    LET last == CHOOSE n \in 1..Len(body) :
                    /\ body[n][1] = key
                    /\ \A m \in (n + 1)..Len(body) : body[m][1] # key
    IN  body[last][2]

\* lines 107-112
Session(access_token, access_token_secret) ==
    [client_key            |-> config["consumer_key"],
     client_secret         |-> config["consumer_secret"],
     resource_owner_key    |-> access_token,
     resource_owner_secret |-> access_token_secret]

\* get_access_token with the status check of line 49 left out
get_access_token_unchecked ==
    /\ pc = "get_access_token"
    /\ \E status \in Statuses, body \in TokenBodies :
        /\ calls' = Append(calls, TokenCall(status))
        /\ stdout' = Append(stdout, <<"Authenticating with Instapaper...">>)
        /\ IF ~TokensParse(body)
           THEN /\ Raise("ValueError")
                /\ UNCHANGED oauth_session
           ELSE IF ~(TokensHas(body, "oauth_token") /\ TokensHas(body, "oauth_token_secret"))
           THEN /\ Raise("KeyError")
                /\ UNCHANGED oauth_session
           ELSE /\ oauth_session' = Session(TokensGet(body, "oauth_token"),
                                            TokensGet(body, "oauth_token_secret"))
                /\ pc' = "get_newsletter_bookmarks"
                /\ UNCHANGED <<stderr, exit_code>>
    /\ UNCHANGED <<configFile, config, password, response, bookmarks, now,
                   cutoff_time, old_bookmarks, i, archived_count, failed_count>>

\* main, lines 101-112, with get_access_token (lines 32-56): one request to
\* the token endpoint; any status but 200 ends the process; the body is
\* parsed and the signed session is constructed
get_access_token ==
    /\ pc = "get_access_token"
    /\ \E status \in Statuses, body \in TokenBodies :
        /\ calls' = Append(calls, TokenCall(status))
        /\ stdout' = Append(stdout, <<"Authenticating with Instapaper...">>)
        /\ IF status # HTTP_OK
           THEN /\ stderr' = stderr \o << <<"Error getting access token:", status>>,
                                         <<"response.text">> >>
                /\ Exit(EXIT_FAILURE)
                /\ UNCHANGED oauth_session
           ELSE IF ~TokensParse(body)
           THEN /\ Raise("ValueError")
                /\ UNCHANGED oauth_session
           ELSE IF ~(TokensHas(body, "oauth_token") /\ TokensHas(body, "oauth_token_secret"))
           THEN /\ Raise("KeyError")
                /\ UNCHANGED oauth_session
           ELSE /\ oauth_session' = Session(TokensGet(body, "oauth_token"),
                                            TokensGet(body, "oauth_token_secret"))
                /\ pc' = "get_newsletter_bookmarks"
                /\ UNCHANGED <<stderr, exit_code>>
    /\ UNCHANGED <<configFile, config, password, response, bookmarks, now,
                   cutoff_time, old_bookmarks, i, archived_count, failed_count>>

-----------------------------------------------------------------------------
(* Listing *)

\* the request of line 67 and the status it got
ListCall(status) ==
    [endpoint |-> "bookmarks/list",
     data     |-> [limit |-> Limit, tag |-> "newsletter"],
     status   |-> status]

\* lines 77-78 skipping the first element only when it is no bookmark
BookmarksOfKeepingBookmarkShaped(data) ==
    IF Len(data) > 1 /\ "bookmark_id" \in DOMAIN data[1] THEN data
    ELSE IF Len(data) > 1 THEN Tail(data)
    ELSE <<>>

\* lines 63 and 74-80: the bookmarks of a 200 response
BookmarksOf(data) == IF Len(data) > 1 THEN Tail(data) ELSE <<>>

\* main, lines 116-120, once get_newsletter_bookmarks returned `found`
AfterListing(found) ==
    /\ bookmarks' = found
    /\ IF found = <<>>
       THEN /\ stdout' = stdout \o << <<"Fetching newsletter bookmarks...">>,
                                     <<"Found", 0, "bookmarks with 'newsletter' tag">>,
                                     <<"No bookmarks to process">> >>
            /\ Exit(EXIT_SUCCESS)
       ELSE /\ stdout' = stdout \o << <<"Fetching newsletter bookmarks...">>,
                                     <<"Found", Len(found), "bookmarks with 'newsletter' tag">> >>
            /\ pc' = "filter"
            /\ UNCHANGED exit_code

\* get_newsletter_bookmarks ending the process on a failed list call
get_newsletter_bookmarks_fatal ==
    /\ pc = "get_newsletter_bookmarks"
    /\ \E status \in Statuses, data \in ListBodies :
        /\ calls' = Append(calls, ListCall(status))
        /\ response' = [status_code |-> status, json |-> data]
        /\ IF status # HTTP_OK
           THEN /\ stderr' = stderr \o << <<"Error fetching bookmarks:", status>>,
                                         <<"response.text">> >>
                /\ Exit(EXIT_FAILURE)
                /\ UNCHANGED <<bookmarks, stdout>>
           ELSE /\ AfterListing(BookmarksOf(data))
                /\ UNCHANGED stderr
    /\ UNCHANGED <<configFile, config, password, oauth_session, now, cutoff_time,
                   old_bookmarks, i, archived_count, failed_count>>

\* get_newsletter_bookmarks asking for a second page after a non-empty one
get_newsletter_bookmarks_paging ==
    /\ pc = "get_newsletter_bookmarks"
    /\ \E status \in Statuses, data \in ListBodies :
        /\ calls' = IF status = HTTP_OK /\ Len(data) > 1
                    THEN calls \o <<ListCall(status), ListCall(status)>>
                    ELSE Append(calls, ListCall(status))
        /\ response' = [status_code |-> status, json |-> data]
        /\ IF status # HTTP_OK
           THEN /\ stderr' = stderr \o << <<"Error fetching bookmarks:", status>>,
                                         <<"response.text">> >>
                /\ AfterListing(<<>>)
           ELSE /\ AfterListing(BookmarksOf(data))
                /\ UNCHANGED stderr
    /\ UNCHANGED <<configFile, config, password, oauth_session, now, cutoff_time,
                   old_bookmarks, i, archived_count, failed_count>>

\* main, lines 114-120, with get_newsletter_bookmarks (lines 59-80): one
\* request to the list endpoint; any status but 200 gives no bookmarks; a
\* 200 response gives its JSON array without the first element; with no
\* bookmarks main returns
get_newsletter_bookmarks ==
    /\ pc = "get_newsletter_bookmarks"
    /\ \E status \in Statuses, data \in ListBodies :
        /\ calls' = Append(calls, ListCall(status))
        /\ response' = [status_code |-> status, json |-> data]
        /\ IF status # HTTP_OK
           THEN /\ stderr' = stderr \o << <<"Error fetching bookmarks:", status>>,
                                         <<"response.text">> >>
                /\ AfterListing(<<>>)
           ELSE /\ AfterListing(BookmarksOf(data))
                /\ UNCHANGED stderr
    /\ UNCHANGED <<configFile, config, password, oauth_session, now, cutoff_time,
                   old_bookmarks, i, archived_count, failed_count>>

-----------------------------------------------------------------------------
(* Age filter *)

\* lines 128-129: the bookmark is older than the cutoff
IsOld(bookmark, cutoff) == DatetimeLess(FromTimestamp(bookmark["time"]), cutoff)

\* lines 124-130
OldBookmarks(found, cutoff) == SelectSeq(found, LAMBDA b : IsOld(b, cutoff))

\* the filter going on to the loop and the summary with nothing to archive
filter_bookmarks_no_return ==
    /\ pc = "filter"
    /\ \E t \in Nows :
        LET cutoff == MinusDays(UtcNow(t), Days)
            old    == OldBookmarks(bookmarks, cutoff)
        IN  /\ now' = UtcNow(t)
            /\ cutoff_time' = cutoff
            /\ old_bookmarks' = old
            /\ stdout' = Append(stdout, <<"Found", Len(old), "newsletters older than 7 days">>)
            /\ pc' = "archive"
            /\ UNCHANGED exit_code
    /\ UNCHANGED <<configFile, config, password, oauth_session, response, bookmarks,
                   i, archived_count, failed_count, calls, stderr>>

\* main, lines 122-136: the cutoff is computed once from the clock, the
\* bookmarks strictly older than it are kept in order; with none kept main
\* returns
filter_bookmarks ==
    /\ pc = "filter"
    /\ \E t \in Nows :
        LET cutoff == MinusDays(UtcNow(t), Days)
            old    == OldBookmarks(bookmarks, cutoff)
        IN  /\ now' = UtcNow(t)
            /\ cutoff_time' = cutoff
            /\ old_bookmarks' = old
            /\ IF old = <<>>
               THEN /\ stdout' = stdout \o << <<"Found", 0, "newsletters older than 7 days">>,
                                             <<"No bookmarks to archive">> >>
                    /\ Exit(EXIT_SUCCESS)
               ELSE /\ stdout' = Append(stdout, <<"Found", Len(old), "newsletters older than 7 days">>)
                    /\ pc' = "archive"
                    /\ UNCHANGED exit_code
    /\ UNCHANGED <<configFile, config, password, oauth_session, response, bookmarks,
                   i, archived_count, failed_count, calls, stderr>>

-----------------------------------------------------------------------------
(* Archiving *)

\* the request of line 86 and the status it got
ArchiveCall(bookmark_id, status) ==
    [endpoint |-> "bookmarks/archive",
     data     |-> [bookmark_id |-> bookmark_id],
     status   |-> status]

\* line 88 taking every 2xx status for a success
archive_succeeded_any_2xx(status) == status >= 200 /\ status < 300

\* line 88: the result of archive_bookmark
archive_succeeded(status) == status = HTTP_OK

\* the loop body asking a second time when the first attempt failed
archive_next_retrying ==
    /\ pc = "archive"
    /\ i <= Len(old_bookmarks)
    /\ \E status \in Statuses, second \in Statuses :
        LET bookmark == old_bookmarks[i]
            title    == Get(bookmark, "title", "Untitled")
            final    == IF archive_succeeded(status) THEN status ELSE second
        IN  /\ calls' = IF archive_succeeded(status)
                        THEN Append(calls, ArchiveCall(bookmark["bookmark_id"], status))
                        ELSE calls \o <<ArchiveCall(bookmark["bookmark_id"], status),
                                        ArchiveCall(bookmark["bookmark_id"], second)>>
            /\ IF archive_succeeded(final)
               THEN /\ archived_count' = archived_count + 1
                    /\ stdout' = Append(stdout, <<"Archived:", title>>)
                    /\ UNCHANGED <<failed_count, stderr>>
               ELSE /\ failed_count' = failed_count + 1
                    /\ stderr' = Append(stderr, <<"Failed to archive:", title>>)
                    /\ UNCHANGED <<archived_count, stdout>>
    /\ i' = i + 1
    /\ UNCHANGED <<pc, configFile, config, password, oauth_session, response, bookmarks,
                   now, cutoff_time, old_bookmarks, exit_code>>

\* the loop body ending the process at the first failed attempt
archive_next_fail_fast ==
    /\ pc = "archive"
    /\ i <= Len(old_bookmarks)
    /\ \E status \in Statuses :
        LET bookmark == old_bookmarks[i]
            title    == Get(bookmark, "title", "Untitled")
        IN  /\ calls' = Append(calls, ArchiveCall(bookmark["bookmark_id"], status))
            /\ IF archive_succeeded(status)
               THEN /\ archived_count' = archived_count + 1
                    /\ stdout' = Append(stdout, <<"Archived:", title>>)
                    /\ UNCHANGED <<failed_count, stderr, pc, exit_code>>
               ELSE /\ failed_count' = failed_count + 1
                    /\ stderr' = Append(stderr, <<"Failed to archive:", title>>)
                    /\ Exit(EXIT_FAILURE)
                    /\ UNCHANGED <<archived_count, stdout>>
    /\ i' = i + 1
    /\ UNCHANGED <<configFile, config, password, oauth_session, response, bookmarks,
                   now, cutoff_time, old_bookmarks>>

\* main, lines 142-151: one iteration of the loop over old_bookmarks, with
\* archive_bookmark (lines 83-88): one request, counted and logged by its
\* status
archive_next ==
    /\ pc = "archive"
    /\ i <= Len(old_bookmarks)
    /\ \E status \in Statuses :
        LET bookmark == old_bookmarks[i]
            title    == Get(bookmark, "title", "Untitled")
        IN  /\ calls' = Append(calls, ArchiveCall(bookmark["bookmark_id"], status))
            /\ IF archive_succeeded(status)
               THEN /\ archived_count' = archived_count + 1
                    /\ stdout' = Append(stdout, <<"Archived:", title>>)
                    /\ UNCHANGED <<failed_count, stderr>>
               ELSE /\ failed_count' = failed_count + 1
                    /\ stderr' = Append(stderr, <<"Failed to archive:", title>>)
                    /\ UNCHANGED <<archived_count, stdout>>
    /\ i' = i + 1
    /\ UNCHANGED <<pc, configFile, config, password, oauth_session, response, bookmarks,
                   now, cutoff_time, old_bookmarks, exit_code>>

\* main, lines 153-156: the summary and the exit status, after the loop
summary ==
    /\ pc = "archive"
    /\ i > Len(old_bookmarks)
    /\ stdout' = Append(stdout, <<"Summary:", archived_count, "archived,", failed_count, "failed">>)
    /\ Exit(IF failed_count > 0 THEN EXIT_FAILURE ELSE EXIT_SUCCESS)
    /\ UNCHANGED <<configFile, config, password, oauth_session, response, bookmarks,
                   now, cutoff_time, old_bookmarks, i, archived_count, failed_count,
                   calls, stderr>>

-----------------------------------------------------------------------------
Next ==
    \/ load_config
    \/ read_credentials
    \/ get_access_token
    \/ get_newsletter_bookmarks
    \/ filter_bookmarks
    \/ archive_next
    \/ summary

Spec == Init /\ [][Next]_vars

-----------------------------------------------------------------------------
(* Vocabulary of the properties.  The age of a record is restated here in   *)
(* plain epoch seconds, independently of the datetime pairs the run uses.   *)

IsNone(x) == DOMAIN x = {}

Exited == exit_code # <<>>

CallsTo(endpoint) == SelectSeq(calls, LAMBDA c : c.endpoint = endpoint)

TokenCalls == CallsTo("oauth/access_token")

ListCalls == CallsTo("bookmarks/list")

ArchiveCalls == CallsTo("bookmarks/archive")

FailedArchiveCalls == SelectSeq(ArchiveCalls, LAMBDA c : c.status # 200)

ArchivedIds == [n \in 1..Len(ArchiveCalls) |-> ArchiveCalls[n].data.bookmark_id]

Secs(dt) == dt[1] * 86400 + dt[2]

\* now - 7 days is CutoffSecs seconds and CutoffMicros microseconds
CutoffSecs == Secs(now) - 7 * 86400

CutoffMicros == now[3]

\* time < now - 7 days, for a time in whole seconds
Qualifies(b) == \/ b["time"] < CutoffSecs
                \/ b["time"] = CutoffSecs /\ 0 < CutoffMicros

\* time = now - 7 days
AtCutoff(b) == b["time"] = CutoffSecs /\ CutoffMicros = 0

\* the records of the working set that qualify, once the clock was read
Qualifying == IF IsNone(now) THEN <<>> ELSE SelectSeq(bookmarks, Qualifies)

QualifyingIds == [n \in 1..Len(Qualifying) |-> Qualifying[n]["bookmark_id"]]

Printed(line) == \E n \in 1..Len(stdout) : stdout[n][1] = line

LastPrinted == stdout[Len(stdout)]

InvalidConfig == \/ ~configFile.exists
                 \/ ~configFile.json
                 \/ \E k \in {"consumer_key", "consumer_secret", "username"} :
                        k \notin configFile.keys

-----------------------------------------------------------------------------
(* C1: once the age filter has run, old_bookmarks is exactly the working    *)
(* set restricted, in order, to the records whose time is strictly less     *)
(* than now - 7 days; a record whose time equals the cutoff is not in it;   *)
(* and the cutoff, once computed, never changes during the run.             *)
C1_SelectedIffStrictlyOlder ==
    /\ [](~IsNone(cutoff_time) =>
            /\ Secs(cutoff_time) = CutoffSecs
            /\ cutoff_time[3] = CutoffMicros
            /\ old_bookmarks = SelectSeq(bookmarks, Qualifies)
            /\ \A n \in 1..Len(old_bookmarks) : ~AtCutoff(old_bookmarks[n])
            /\ \A n \in 1..Len(bookmarks) :
                   Qualifies(bookmarks[n]) <=>
                       \E m \in 1..Len(old_bookmarks) : old_bookmarks[m] = bookmarks[n])
    /\ [][~IsNone(cutoff_time) => UNCHANGED <<now, cutoff_time, old_bookmarks, bookmarks>>]_vars

\* the filter has run on a working set holding a record exactly at the
\* cutoff, an older one and a newer one; only the older one was kept
C1_Witness ==
    /\ ~IsNone(cutoff_time)
    /\ Len(bookmarks) = 3
    /\ AtCutoff(bookmarks[1])
    /\ bookmarks[2]["time"] = CutoffSecs - 1
    /\ bookmarks[3]["time"] = CutoffSecs + 1
    /\ old_bookmarks = <<bookmarks[2]>>

(* C2: the process never exits inside the archive loop; when it has exited  *)
(* and some archive attempt failed, the status is 1, one archive request    *)
(* was issued for every qualifying record and the summary was the last      *)
(* line printed; when it has exited after the listing step and no attempt   *)
(* failed, the status is 0.                                                 *)
C2_FailureExitsOnlyAtEnd ==
    /\ pc = "archive" => ~Exited
    /\ (Exited /\ FailedArchiveCalls # <<>>) =>
           /\ exit_code = <<1>>
           /\ Len(ArchiveCalls) = Len(Qualifying)
           /\ LastPrinted[1] = "Summary:"
    /\ (Exited /\ ListCalls # <<>> /\ FailedArchiveCalls = <<>>) => exit_code = <<0>>

\* the first attempt failed, the loop went on to a later attempt that
\* succeeded, and the run then exited with status 1
C2_Witness ==
    /\ Exited
    /\ Len(ArchiveCalls) >= 2
    /\ ArchiveCalls[1].status # 200
    /\ ArchiveCalls[Len(ArchiveCalls)].status = 200
    /\ exit_code = <<1>>

(* C3: the bookmark ids of the archive requests issued so far are always a  *)
(* prefix of the ids of the qualifying records in list order (none before   *)
(* the filter has run), one request per loop iteration whatever its         *)
(* status, and when the run has ended after filtering they are exactly the  *)
(* ids of the qualifying records, one per occurrence.                       *)
C3_ExactlyOneRequestPerQualifying ==
    /\ Len(ArchivedIds) <= Len(QualifyingIds)
    /\ ArchivedIds = SubSeq(QualifyingIds, 1, Len(ArchivedIds))
    /\ pc = "archive" => Len(ArchivedIds) = i - 1
    /\ (pc = "done" /\ ~IsNone(cutoff_time)) => ArchivedIds = QualifyingIds

\* the run ended with a failed attempt on a record that occurs twice among
\* the qualifying ones and with a record that did not qualify
C3_Witness ==
    /\ pc = "done"
    /\ Len(bookmarks) = 3
    /\ Len(Qualifying) = 2
    /\ QualifyingIds[1] = QualifyingIds[2]
    /\ ArchiveCalls[1].status # 200
    /\ ArchivedIds = QualifyingIds

(* C4: when the summary has been printed it is the last line and carries    *)
(* archived_count = number of archive requests answered 200 and             *)
(* failed_count = number answered anything else; the two add up to the      *)
(* number of qualifying records; the exit status is 1 exactly when          *)
(* failed_count > 0.  Scenario A (3 tagged, 2 older, both answered 200)     *)
(* prints "2 archived, 0 failed" and exits 0; scenario B (1 tagged, older,  *)
(* answered non-200) prints "0 archived, 1 failed" and exits 1.             *)
C4_SummaryCounts ==
    Printed("Summary:") =>
        LET ok  == Len(ArchiveCalls) - Len(FailedArchiveCalls)
            bad == Len(FailedArchiveCalls)
        IN  /\ LastPrinted = <<"Summary:", ok, "archived,", bad, "failed">>
            /\ archived_count = ok
            /\ failed_count = bad
            /\ ok + bad = Len(Qualifying)
            /\ exit_code = <<IF bad > 0 THEN 1 ELSE 0>>
            /\ (Len(bookmarks) = 3 /\ Len(Qualifying) = 2 /\ bad = 0) =>
                   /\ LastPrinted = <<"Summary:", 2, "archived,", 0, "failed">>
                   /\ exit_code = <<0>>
            /\ (Len(bookmarks) = 1 /\ Len(Qualifying) = 1 /\ bad = 1) =>
                   /\ LastPrinted = <<"Summary:", 0, "archived,", 1, "failed">>
                   /\ exit_code = <<1>>

\* scenario A has been run to its end
C4_Witness ==
    /\ Printed("Summary:")
    /\ Len(bookmarks) = 3
    /\ Len(Qualifying) = 2
    /\ FailedArchiveCalls = <<>>
    /\ LastPrinted = <<"Summary:", 2, "archived,", 0, "failed">>
    /\ exit_code = <<0>>

(* C5: whenever a token request has been answered with a status other than  *)
(* 200, the process has exited with status 1, the authenticated session     *)
(* was never constructed, and that token request is the only request of     *)
(* the run: no second token request, no list request, no archive request.   *)
C5_TokenFailureIsFatal ==
    (\E n \in 1..Len(calls) :
         calls[n].endpoint = "oauth/access_token" /\ calls[n].status # 200) =>
        /\ pc = "done"
        /\ exit_code = <<1>>
        /\ IsNone(oauth_session)
        /\ Len(calls) = 1

\* the token endpoint answered 204, a success status that is not 200
C5_Witness ==
    /\ Len(calls) = 1
    /\ calls[1].endpoint = "oauth/access_token"
    /\ calls[1].status = 204
    /\ exit_code = <<1>>

(* C6: with the configuration file absent, unparsable, or lacking           *)
(* consumer_key, consumer_secret or username, the run never goes past       *)
(* reading the credentials, issues no request at all, and ends with status  *)
(* 1 and a diagnostic on the error stream.  With only the password          *)
(* missing, the credentials are read, the password is the empty string,     *)
(* and the run goes on to the token request, which carries it.              *)
C6_BadConfigNoNetwork ==
    /\ InvalidConfig =>
           /\ calls = <<>>
           /\ pc \in {"load_config", "read_credentials", "done"}
           /\ IsNone(oauth_session)
           /\ pc = "done" => (exit_code = <<1>> /\ stderr # <<>>)
    /\ (~InvalidConfig /\ "password" \notin configFile.keys
            /\ pc \notin {"load_config", "read_credentials"}) =>
           /\ password = ""
           /\ calls # <<>> => calls[1].data.x_auth_password = ""
           /\ pc = "done" => calls # <<>>

\* a file that lacks only the username was loaded and rejected
C6_Witness ==
    /\ configFile.exists
    /\ configFile.json
    /\ configFile.keys = {"consumer_key", "consumer_secret", "password"}
    /\ pc = "done"
    /\ exit_code = <<1>>
    /\ calls = <<>>

(* C7: after a list response with status 200, the working set is the        *)
(* response array without its first element, position by position (empty   *)
(* for an array of length 0 or 1), and a first element that looks like an   *)
(* old bookmark is neither kept by the age filter nor archived.             *)
C7_FirstElementExcluded ==
    (ListCalls # <<>> /\ response.status_code = 200) =>
        LET data == response.json
        IN  /\ Len(data) <= 1 => bookmarks = <<>>
            /\ Len(data) > 1 => Len(bookmarks) = Len(data) - 1
            /\ \A n \in 1..Len(bookmarks) : bookmarks[n] = data[n + 1]
            /\ (/\ Len(data) >= 1
                /\ "bookmark_id" \in DOMAIN data[1]
                /\ \A n \in 2..Len(data) : data[n]["bookmark_id"] # data[1]["bookmark_id"]) =>
                   /\ \A n \in 1..Len(old_bookmarks) :
                          old_bookmarks[n]["bookmark_id"] # data[1]["bookmark_id"]
                   /\ \A n \in 1..Len(ArchivedIds) : ArchivedIds[n] # data[1]["bookmark_id"]

\* the run ended after a response whose first element is shaped like an old
\* bookmark, followed by two records, both archived
C7_Witness ==
    /\ pc = "done"
    /\ ListCalls # <<>>
    /\ response.status_code = 200
    /\ Len(response.json) = 3
    /\ "bookmark_id" \in DOMAIN response.json[1]
    /\ response.json[1]["time"] < CutoffSecs
    /\ Len(ArchivedIds) = 2

(* C8: whenever the list request has been answered with a status other      *)
(* than 200, the working set is empty, the run has printed that it found 0  *)
(* bookmarks and then "No bookmarks to process", no archive request was     *)
(* issued, and the process has ended with status 0.                         *)
C8_ListFailureIsSoft ==
    (ListCalls # <<>> /\ response.status_code # 200) =>
        /\ bookmarks = <<>>
        /\ Len(stdout) >= 2
        /\ stdout[Len(stdout) - 1] = <<"Found", 0, "bookmarks with 'newsletter' tag">>
        /\ LastPrinted = <<"No bookmarks to process">>
        /\ ArchiveCalls = <<>>
        /\ pc = "done"
        /\ exit_code = <<0>>

\* the list endpoint answered 500 with a body that holds bookmarks
C8_Witness ==
    /\ ListCalls # <<>>
    /\ response.status_code = 500
    /\ Len(response.json) > 1
    /\ exit_code = <<0>>

(* C9: when the listing step is over and no record qualifies (the working   *)
(* set is empty, or the filter has run and kept nothing), the run has       *)
(* ended with status 0, issued no archive request, printed no summary, and  *)
(* its last line is "No bookmarks to process" for an empty working set and  *)
(* "No bookmarks to archive" otherwise.                                     *)
C9_NothingToArchive ==
    (/\ ListCalls # <<>>
     /\ \/ bookmarks = <<>>
        \/ ~IsNone(cutoff_time) /\ Qualifying = <<>>) =>
        /\ pc = "done"
        /\ exit_code = <<0>>
        /\ ArchiveCalls = <<>>
        /\ ~Printed("Summary:")
        /\ LastPrinted = IF bookmarks = <<>> THEN <<"No bookmarks to process">>
                                             ELSE <<"No bookmarks to archive">>

\* a working set of two records, one exactly at the cutoff and one after it
C9_Witness ==
    /\ pc = "done"
    /\ Len(bookmarks) = 2
    /\ ~IsNone(cutoff_time)
    /\ AtCutoff(bookmarks[1])
    /\ bookmarks[2]["time"] > CutoffSecs
    /\ LastPrinted = <<"No bookmarks to archive">>

(* C10: the requests of a run are, in order, one token request, then one    *)
(* list request (limit 500, tag "newsletter"), then archive requests only.  *)
(* The list request is issued only after the token request was answered     *)
(* 200 and the session was built; every archive request is issued after     *)
(* the list request was answered 200 and its records filtered.  A run       *)
(* whose configuration was accepted and that has ended made exactly one     *)
(* token request.                                                           *)
C10_CallOrder ==
    /\ \A n \in 1..Len(calls) :
           /\ n = 1 => calls[n].endpoint = "oauth/access_token"
           /\ n = 2 => /\ calls[n].endpoint = "bookmarks/list"
                       /\ calls[n].data = [limit |-> 500, tag |-> "newsletter"]
                       /\ calls[1].status = 200
                       /\ ~IsNone(oauth_session)
           /\ n >= 3 => /\ calls[n].endpoint = "bookmarks/archive"
                        /\ calls[2].status = 200
                        /\ response.status_code = 200
                        /\ ~IsNone(cutoff_time)
    /\ (pc = "done" /\ ~InvalidConfig) => Len(TokenCalls) = 1
    /\ Len(TokenCalls) <= 1
    /\ Len(ListCalls) <= 1

\* a full run: token, list, three archive requests
C10_Witness ==
    /\ pc = "done"
    /\ Len(calls) = 5
    /\ Len(TokenCalls) = 1
    /\ Len(ListCalls) = 1
    /\ Len(ArchiveCalls) = 3

=============================================================================
